---- MODULE Spec2Model ----
(***************************************************************************)
(* cargo-shell: the REPL loop (main), the command dispatcher               *)
(* (dispatch_cmd) and the subprocess runner (run) of src/lib.rs, over the  *)
(* session state held in Config.                                           *)
(*                                                                         *)
(* A Rust string is modelled as a sequence of one-character strings, so    *)
(* that trim, split(' '), starts_with and slicing are computed as the      *)
(* code computes them.  An argument vector is a sequence of such strings.  *)
(***************************************************************************)
EXTENDS Integers, Sequences, FiniteSets, TLC

VARIABLES
    prompt,             \* Config.prompt (template)
    rustup,             \* Config.rustup
    name,               \* Config.name
    version,            \* Config.version
    default_toolchain,  \* Config.default_toolchain
    toolchains,         \* Config.toolchains
    current_toolchain,  \* Config.current_toolchain
    cwd,                \* Config.cwd
    pc,                 \* where main is: "readline", "probe", "child", "returned", "exited", "eof"
    rl,                 \* outcome of the last rl.readline call
    cmd,                \* the trimmed line handed to dispatch_cmd
    branch,             \* the branch of dispatch_cmd taken for cmd
    original,           \* local `original` of the ++ and + branches
    args,               \* local argument vector handed to run
    idx,                \* position of the + loop in `toolchains` (0: not in the loop)
    invs,               \* the Invocations issued by run during this dispatch_cmd call
    ret,                \* what dispatch_cmd returned: "none" (still running), "Ok", "Err"
    reported,           \* main printed "Error: ..." for this line
    warned,             \* the ~ branch wrote its warning to stderr
    out,                \* the argument vectors the < branch printed
    entry,              \* current_toolchain when dispatch_cmd was entered
    pinned,             \* <<T>> while the last `++ T` without a command is in force
    before,             \* the Config fields when dispatch_cmd was entered
    shown,              \* the prompt handed to the last rl.readline call
    probe,              \* the `cargo watch --help` child of the ~ branch
    file,               \* what the < branch found: File::open's result, the lines
    exit_code           \* the status the process ended with (-1: still running)

vars == <<prompt, rustup, name, version, default_toolchain, toolchains,
          current_toolchain, cwd, pc, rl, cmd, branch, original, args, idx,
          invs, ret, reported, warned, out, entry, pinned, before, shown,
          probe, file, exit_code>>

config == <<prompt, rustup, name, version, default_toolchain, toolchains,
            current_toolchain, cwd>>

(***************************************************************************)
(* Bounds of the model.                                                    *)
(***************************************************************************)
MaxArgs == 2          \* words after the command prefix of an input line
MaxToolchains == 2    \* length of the configured toolchain list
MaxFileLines == 1     \* lines of a batch file
MaxBatchLines == 3    \* lines of a batch file, when only batch files are read

(***************************************************************************)
(* String literals of the source.                                          *)
(***************************************************************************)
SP == " "
TAB == "\t"
EMPTY == <<>>
STABLE == <<"s","t","a","b","l","e">>
BETA == <<"b","e","t","a">>
NIGHTLY == <<"n","i","g","h","t","l","y">>
RUN == <<"r","u","n">>
CARGO == <<"c","a","r","g","o">>
WATCH == <<"w","a","t","c","h">>
EXIT == <<"e","x","i","t">>
QUIT == <<"q","u","i","t">>
HELP == <<"h","e","l","p">>
DEFAULT_TOOLCHAIN == STABLE
DEFAULT_PROMPT == <<">", ">", " ">>

(***************************************************************************)
(* str helpers, as std computes them.                                      *)
(***************************************************************************)
IsWhitespace(c) == c \in {SP, TAB}

RECURSIVE TrimStart(_)
TrimStart(s) ==
    IF s = EMPTY THEN s
    ELSE IF IsWhitespace(Head(s)) THEN TrimStart(Tail(s)) ELSE s

RECURSIVE TrimEnd(_)
TrimEnd(s) ==
    IF s = EMPTY THEN s
    ELSE IF IsWhitespace(s[Len(s)]) THEN TrimEnd(SubSeq(s, 1, Len(s) - 1)) ELSE s

Trim(s) == TrimEnd(TrimStart(s))

IsQuote(c) == c \in {"\"", "'"}

RECURSIVE TrimQuotesStart(_)
TrimQuotesStart(s) ==
    IF s = EMPTY THEN s
    ELSE IF IsQuote(Head(s)) THEN TrimQuotesStart(Tail(s)) ELSE s

RECURSIVE TrimQuotesEnd(_)
TrimQuotesEnd(s) ==
    IF s = EMPTY THEN s
    ELSE IF IsQuote(s[Len(s)]) THEN TrimQuotesEnd(SubSeq(s, 1, Len(s) - 1)) ELSE s

\* trim_matches(|c| c == '"' || c == '\'')
TrimMatchesQuotes(s) == TrimQuotesEnd(TrimQuotesStart(s))

StartsWith(s, p) == Len(s) >= Len(p) /\ SubSeq(s, 1, Len(p)) = p

\* &s[n..]
From(s, n) == SubSeq(s, n + 1, Len(s))

\* s.split(' ').collect::<Vec<_>>(): never empty, empty pieces are kept
RECURSIVE Split(_)
Split(s) ==
    IF \A i \in 1..Len(s) : s[i] # SP THEN <<s>>
    ELSE LET i == CHOOSE j \in 1..Len(s) :
                      s[j] = SP /\ \A k \in 1..(j - 1) : s[k] # SP
         IN  <<SubSeq(s, 1, i - 1)>> \o Split(SubSeq(s, i + 1, Len(s)))

RECURSIVE Join(_)
Join(v) ==
    IF v = <<>> THEN EMPTY
    ELSE IF Len(v) = 1 THEN v[1]
    ELSE v[1] \o <<SP>> \o Join(Tail(v))

(***************************************************************************)
(* What the collaborators can hand to the program: the lines rl.readline   *)
(* returns, the configured toolchain lists, the batch files.               *)
(***************************************************************************)
TEST == <<"t","e","s","t">>
Words == {BETA, TEST}
ArgVecs == UNION {[1..k -> Words] : k \in 0..MaxArgs}
Prefixes == {EMPTY, <<"+","+",SP>>, <<"+",SP>>, <<"~",SP>>}
SpecialLines ==
    { EXIT, QUIT, HELP, <<SP>> \o EXIT \o <<TAB>>,
      EXIT \o <<SP>> \o TEST, HELP \o <<SP>> \o TEST,
      <<"+","+",SP>> \o BETA \o <<SP,SP>> \o TEST,
      <<"+","+",TAB>> \o BETA,
      <<SP,"+","+",SP,TAB>>,
      <<"+","+">> \o BETA, <<"+">> \o TEST, <<"~">> \o TEST, <<"<">> \o TEST,
      <<"<",SP>> \o TEST, <<"<",SP>> \o TEST \o <<SP>> \o BETA,
      <<"p">>, <<"p">> \o TEST, <<"p",SP>> \o TEST,
      <<"p",SP,"\"","{","t","o","o","l","c","h","a","i","n","}",">","'">> }
Lines == { pre \o Join(v) : pre \in Prefixes, v \in ArgVecs } \cup SpecialLines
ToolchainAt(i) == <<STABLE, BETA, NIGHTLY>>[((i - 1) % 3) + 1]
ToolchainLists == { [i \in 1..k |-> ToolchainAt(i)] : k \in 0..MaxToolchains }
READ_ERROR == <<"\\", "x", "f", "f">>   \* a line that BufRead::lines fails on
FileLines ==
    { EMPTY, <<SP, SP>>, <<SP, "#", SP>> \o TEST,
      <<SP>> \o TEST \o <<SP>> \o BETA \o <<TAB>>, READ_ERROR }
Files == UNION {[1..k -> FileLines] : k \in 0..MaxFileLines}
BatchLines == { <<"<">> \o TEST, <<"<", SP>> \o TEST \o <<TAB>> }
BatchFiles == UNION {[1..k -> FileLines] : k \in 0..MaxBatchLines}
ExitCodes == {0, 1}

(***************************************************************************)
(* dispatch_cmd: which branch of the if / else-if chain a trimmed line     *)
(* takes, and what each branch computes from the line.                     *)
(***************************************************************************)
Classify_FanFirst(c) ==
    IF c = EXIT \/ c = QUIT THEN "exit"
    ELSE IF c = HELP THEN "help"
    ELSE IF StartsWith(c, <<"p", SP>>) THEN "prompt"
    ELSE IF StartsWith(c, <<"~">>) THEN "watch"
    ELSE IF StartsWith(c, <<"<">>) THEN "file"
    ELSE IF StartsWith(c, <<"+">>) THEN "fan"
    ELSE IF StartsWith(c, <<"+", "+">>) THEN "pp"
    ELSE "plain"
Classify(c) ==
    IF c = EXIT \/ c = QUIT THEN "exit"
    ELSE IF c = HELP THEN "help"
    ELSE IF StartsWith(c, <<"p", SP>>) THEN "prompt"
    ELSE IF StartsWith(c, <<"~">>) THEN "watch"
    ELSE IF StartsWith(c, <<"<">>) THEN "file"
    ELSE IF StartsWith(c, <<"+", "+">>) THEN "pp"
    ELSE IF StartsWith(c, <<"+">>) THEN "fan"
    ELSE "plain"

\* the p branch: the new prompt
NewPrompt(c) == TrimMatchesQuotes(From(c, 2))

\* the ~ branch: new_cmd
WatchArgs(c) == <<WATCH>> \o Split(Trim(From(c, 1)))

\* the ++ branch: parts, version, and whether a command follows
Parts(c) == Split(Trim(From(c, 2)))
Version(c) == Trim(Parts(c)[1])
HasCommand_Always(parts) == Len(parts) >= 1
HasCommand(parts) == Len(parts) > 1

\* the + branch: args
FanArgs(c) == Split(Trim(From(c, 1)))

\* the default branch: args
PlainArgs(c) == Split(c)

\* the < branch: the file name, and the vectors printed for the lines read
\* before the first read error
FileName(c) == Trim(From(c, 1))
SkipLine_EmptyOnly(l) == l = EMPTY
SkipLine(l) == l = EMPTY \/ StartsWith(l, <<"#">>)
RECURSIVE Preview(_)
Preview(f) ==
    IF f = <<>> \/ Head(f) = READ_ERROR THEN <<>>
    ELSE IF SkipLine(Trim(Head(f))) THEN Preview(Tail(f))
    ELSE <<Split(Trim(Head(f)))>> \o Preview(Tail(f))
FileResult_Ignore(f) == "Ok"
FileResult(f) ==
    IF \E i \in 1..Len(f) : f[i] = READ_ERROR THEN "Err" ELSE "Ok"

(***************************************************************************)
(* run: the argument list handed to the toolchain selector, and its        *)
(* result.  status() fails only when the child could not be started; an    *)
(* exit status, zero or not, is discarded.                                 *)
(***************************************************************************)
RunArgv_Current(cmdv) == <<RUN, current_toolchain, CARGO>> \o cmdv
RunArgv(cmdv) == <<RUN, default_toolchain, CARGO>> \o cmdv
Invocation(cmdv, tc, st) ==
    [program |-> rustup, argv |-> RunArgv(cmdv), dir |-> cwd,
     override |-> tc, status |-> st]
SpawnStatus(started) == IF started THEN "running" ELSE "spawn_failed"
ExitStatus(code) == IF code = 0 THEN "exit0" ELSE "exit1"
RunResult(st) == IF st = "spawn_failed" THEN "Err" ELSE "Ok"
HasCargoWatch_Started(st) == st # "spawn_failed"
HasCargoWatch(st) == st = "exit0"

\* str::replace: every non-overlapping match of pat, left to right
RECURSIVE Replace(_, _, _)
Replace(s, pat, by) ==
    IF Len(s) < Len(pat) THEN s
    ELSE IF StartsWith(s, pat) THEN by \o Replace(From(s, Len(pat)), pat, by)
    ELSE <<Head(s)>> \o Replace(Tail(s), pat, by)

PROJECT == <<"{","p","r","o","j","e","c","t","}">>
VERSION == <<"{","v","e","r","s","i","o","n","}">>
TOOLCHAIN == <<"{","t","o","o","l","c","h","a","i","n","}">>

\* Config::get_prompt
GetPrompt(p, n, v, t) ==
    Replace(Replace(Replace(p, PROJECT, n), VERSION, v), TOOLCHAIN, t)

NoFile == [opened |-> FALSE, lines |-> <<>>]

\* main: where the loop goes after dispatch_cmd returned r, and whether it
\* prints the error
LoopAfter_Propagate(r) == IF r = "Err" THEN "eof" ELSE "readline"
LoopAfter(r) == "readline"
Reports(r) == r = "Err"

(***************************************************************************)
(* Config::new and the state main starts its loop in.                      *)
(***************************************************************************)
\* main before its first rl.readline call
Started ==
    /\ pc = "readline"
    /\ rl = "none"
    /\ cmd = EMPTY
    /\ branch = "none"
    /\ original = EMPTY
    /\ args = <<>>
    /\ idx = 0
    /\ invs = <<>>
    /\ ret = "none"
    /\ reported = FALSE
    /\ warned = FALSE
    /\ out = <<>>
    /\ entry = current_toolchain
    /\ pinned = <<>>
    /\ before = config
    /\ shown = GetPrompt(prompt, name, version, current_toolchain)
    /\ probe = "none"
    /\ file = NoFile
    /\ exit_code = -1

Init ==
    /\ prompt = DEFAULT_PROMPT
    /\ rustup = <<"r","u","s","t","u","p">>
    /\ name = <<"f","o","o">>
    /\ version = <<"1",".","2">>
    /\ default_toolchain \in {DEFAULT_TOOLCHAIN, NIGHTLY}
    /\ toolchains \in ToolchainLists
    /\ current_toolchain = default_toolchain
    /\ cwd = <<"/","w">>
    /\ Started

\* the session states in which a prompt is rendered: any template a `p`
\* command can have set, any override a `++` command can have set
Templates ==
    { DEFAULT_PROMPT,
      PROJECT \o <<"@">> \o TOOLCHAIN \o <<" ", "(">> \o VERSION \o <<")">>,
      TOOLCHAIN \o <<"{", "x", "}">> \o TOOLCHAIN,
      <<"{", "p", "r", "o", "j", "e", "c", "t">>,
      <<"{", "v", "e", "r">> \o PROJECT \o <<"n", "}">>,
      <<"{", "t", "o", "o", "l">> \o VERSION \o <<"a", "i", "n", "}">> }
Names == { <<"f","o","o">>, <<"s","i","o">> }
Versions == { <<"1",".","2">> }
Overrides == { STABLE, NIGHTLY, PROJECT }

InitPrompt ==
    /\ prompt \in Templates
    /\ rustup = <<"r","u","s","t","u","p">>
    /\ name \in Names
    /\ version \in Versions
    /\ default_toolchain = DEFAULT_TOOLCHAIN
    /\ toolchains = <<>>
    /\ current_toolchain \in Overrides
    /\ cwd = <<"/","w">>
    /\ Started

fixed == <<rustup, name, version, default_toolchain, toolchains, cwd>>
locals == <<original, args, idx>>
iteration == <<rl, cmd, branch, entry, before, shown>>

\* main hands c = line.trim() to dispatch_cmd, which takes branch b
Enter(c, b) ==
    /\ pc = "readline"
    /\ Classify(c) = b
    /\ rl' = "line"
    /\ cmd' = c
    /\ branch' = b
    /\ entry' = current_toolchain
    /\ before' = config
    /\ reported' = FALSE
    /\ UNCHANGED shown

\* dispatch_cmd returns r to main; its locals are gone
Return(r) ==
    /\ ret' = r
    /\ pc' = "returned"
    /\ original' = EMPTY
    /\ args' = <<>>
    /\ idx' = 0

\* run(config, cmdv) is called with the override at tc, in a branch whose
\* locals are o and i: either the child cannot be started and dispatch_cmd
\* returns the error, or main blocks in status() until the child exits
Spawn(log, cmdv, tc, o, i) ==
    \E started \in BOOLEAN :
        /\ invs' = Append(log, Invocation(cmdv, tc, SpawnStatus(started)))
        /\ IF started
              THEN /\ pc' = "child"
                   /\ ret' = "none"
                   /\ original' = o
                   /\ args' = cmdv
                   /\ idx' = i
              ELSE Return(RunResult(SpawnStatus(started)))

\* the child of the last Invocation exits with code
Exited_StillRunning(code) == invs
Exited(code) ==
    [invs EXCEPT ![Len(invs)].status = ExitStatus(code)]

(***************************************************************************)
(* main: the loop around rl.readline.                                      *)
(***************************************************************************)
ReadEof ==
    /\ pc = "readline"
    /\ rl' = "Eof"
    /\ pc' = "eof"
    /\ exit_code' = 0
    /\ UNCHANGED <<config, cmd, branch, entry, locals, invs, ret, reported,
                   warned, out, pinned, before, shown, probe, file>>

ReadInterrupted_Breaks ==
    /\ pc = "readline"
    /\ rl' = "Interrupted"
    /\ pc' = "eof"
    /\ exit_code' = 0
    /\ UNCHANGED <<config, cmd, branch, entry, locals, invs, ret, reported,
                   warned, out, pinned, before, shown, probe, file>>

ReadInterrupted ==
    /\ pc = "readline"
    /\ rl' = "Interrupted"
    /\ shown' = GetPrompt(prompt, name, version, current_toolchain)
    /\ UNCHANGED <<config, pc, cmd, branch, entry, locals, invs, ret,
                   reported, warned, out, pinned, before, probe, file,
                   exit_code>>

ReadError ==
    /\ pc = "readline"
    /\ rl' = "Error"
    /\ shown' = GetPrompt(prompt, name, version, current_toolchain)
    /\ UNCHANGED <<config, pc, cmd, branch, entry, locals, invs, ret,
                   reported, warned, out, pinned, before, probe, file,
                   exit_code>>

\* dispatch_cmd has returned: main prints the error, if any, and goes back
\* to the top of the loop
Loop ==
    /\ pc = "returned"
    /\ pc' = LoopAfter(ret)
    /\ reported' = Reports(ret)
    /\ rl' = "none"
    /\ cmd' = EMPTY
    /\ branch' = "none"
    /\ entry' = current_toolchain
    /\ invs' = <<>>
    /\ ret' = "none"
    /\ warned' = FALSE
    /\ out' = <<>>
    /\ before' = config
    /\ shown' = GetPrompt(prompt, name, version, current_toolchain)
    /\ probe' = "none"
    /\ file' = NoFile
    /\ UNCHANGED <<config, locals, pinned, exit_code>>

(***************************************************************************)
(* dispatch_cmd, one action per branch and per point where it blocks.      *)
(***************************************************************************)
ExitCmd ==
    \E line \in Lines :
        /\ Enter(Trim(line), "exit")
        /\ pc' = "exited"
        /\ exit_code' = 0
        /\ UNCHANGED <<config, locals, invs, ret, warned, out, pinned, probe,
                       file>>

HelpCmd ==
    \E line \in Lines :
        /\ Enter(Trim(line), "help")
        /\ Return("Ok")
        /\ UNCHANGED <<config, invs, warned, out, pinned, probe, file,
                       exit_code>>

PromptCmd ==
    \E line \in Lines :
        /\ Enter(Trim(line), "prompt")
        /\ prompt' = NewPrompt(Trim(line))
        /\ Return("Ok")
        /\ UNCHANGED <<fixed, current_toolchain, invs, warned, out, pinned,
                       probe, file, exit_code>>

\* the ~ branch up to the probe `cargo watch --help`
WatchCmd ==
    \E line \in Lines, started \in BOOLEAN :
        /\ Enter(Trim(line), "watch")
        /\ probe' = SpawnStatus(started)
        /\ IF started
              THEN /\ pc' = "probe"
                   /\ UNCHANGED <<locals, ret, warned>>
              ELSE /\ warned' = TRUE
                   /\ Return("Ok")
        /\ UNCHANGED <<config, invs, out, pinned, file, exit_code>>

\* the probe exits; the ~ branch warns, or calls run
ProbeExit ==
    \E code \in ExitCodes :
        /\ pc = "probe"
        /\ probe' = ExitStatus(code)
        /\ IF HasCargoWatch(ExitStatus(code))
              THEN /\ Spawn(invs, WatchArgs(cmd), current_toolchain, EMPTY, 0)
                   /\ UNCHANGED warned
              ELSE /\ warned' = TRUE
                   /\ Return("Ok")
                   /\ UNCHANGED invs
        /\ UNCHANGED <<config, iteration, reported, out, pinned, file,
                       exit_code>>

WatchChildExit ==
    \E code \in ExitCodes :
        /\ pc = "child"
        /\ branch = "watch"
        /\ invs' = Exited(code)
        /\ Return(RunResult(ExitStatus(code)))
        /\ UNCHANGED <<config, iteration, reported, warned, out, pinned,
                       probe, file, exit_code>>

\* the < branch: the vectors are printed, never run
FileStep(lines, files) ==
    \E line \in lines :
        /\ Enter(Trim(line), "file")
        /\ \/ /\ file' = NoFile                     \* File::open fails
              /\ out' = <<>>
              /\ Return("Err")
           \/ \E f \in files :
                 /\ file' = [opened |-> TRUE, lines |-> f]
                 /\ out' = Preview(f)
                 /\ Return(FileResult(f))
        /\ UNCHANGED <<config, invs, warned, pinned, probe, exit_code>>

FileCmd == FileStep(Lines, Files)

\* the < branch over longer files
BatchFileCmd == FileStep(BatchLines, BatchFiles)

\* the ++ branch up to its call of run, or to its end when no command follows
PlusPlusCmd ==
    \E line \in Lines :
        /\ Enter(Trim(line), "pp")
        /\ current_toolchain' = Version(Trim(line))
        /\ IF HasCommand(Parts(Trim(line)))
              THEN /\ Spawn(<<>>, Tail(Parts(Trim(line))), Version(Trim(line)),
                            current_toolchain, 0)
              ELSE /\ Return("Ok")
                   /\ UNCHANGED invs
        /\ pinned' = IF Len(Split(Trim(From(Trim(line), 2)))) = 1
                         THEN <<Trim(Split(Trim(From(Trim(line), 2)))[1])>>
                         ELSE <<>>
        /\ UNCHANGED <<fixed, prompt, warned, out, probe, file, exit_code>>

\* run returned Ok in the ++ branch: the override is restored
PlusPlusChildExit ==
    \E code \in ExitCodes :
        /\ pc = "child"
        /\ branch = "pp"
        /\ invs' = Exited(code)
        /\ current_toolchain' = original
        /\ Return(RunResult(ExitStatus(code)))
        /\ UNCHANGED <<fixed, prompt, iteration, reported, warned, out, pinned,
                       probe, file, exit_code>>

\* the + loop from its iteration i on, up to the next call of run that
\* blocks, or to the end of the branch
FanIter_RestoreDefault(i, log, orig, cmdv) ==
    IF i > Len(toolchains)
       THEN /\ current_toolchain' = default_toolchain
            /\ invs' = log
            /\ Return("Ok")
            /\ UNCHANGED pinned
       ELSE /\ current_toolchain' = toolchains[i]
            /\ Spawn(log, cmdv, toolchains[i], orig, i)
            /\ pinned' = IF ret' = "Err" THEN <<>> ELSE pinned

FanIter(i, log, orig, cmdv) ==
    IF i > Len(toolchains)
       THEN /\ current_toolchain' = orig
            /\ invs' = log
            /\ Return("Ok")
            /\ UNCHANGED pinned
       ELSE /\ current_toolchain' = toolchains[i]
            /\ Spawn(log, cmdv, toolchains[i], orig, i)
            /\ pinned' = IF ret' = "Err" THEN <<>> ELSE pinned

FanCmd ==
    \E line \in Lines :
        /\ Enter(Trim(line), "fan")
        /\ FanIter(1, <<>>, current_toolchain, FanArgs(Trim(line)))
        /\ UNCHANGED <<fixed, prompt, warned, out, probe, file, exit_code>>

FanChildExit ==
    \E code \in ExitCodes :
        /\ pc = "child"
        /\ branch = "fan"
        /\ FanIter(idx + 1, Exited(code), original, args)
        /\ UNCHANGED <<fixed, prompt, iteration, reported, warned, out, probe,
                       file, exit_code>>

PlainCmd_Resetting ==
    \E line \in Lines :
        /\ Enter(Trim(line), "plain")
        /\ Spawn(<<>>, PlainArgs(Trim(line)), current_toolchain, EMPTY, 0)
        /\ current_toolchain' = default_toolchain
        /\ UNCHANGED <<fixed, prompt, warned, out, pinned, probe, file,
                       exit_code>>

PlainCmd ==
    \E line \in Lines :
        /\ Enter(Trim(line), "plain")
        /\ Spawn(<<>>, PlainArgs(Trim(line)), current_toolchain, EMPTY, 0)
        /\ UNCHANGED <<config, warned, out, pinned, probe, file, exit_code>>

PlainChildExit ==
    \E code \in ExitCodes :
        /\ pc = "child"
        /\ branch = "plain"
        /\ invs' = Exited(code)
        /\ Return(RunResult(ExitStatus(code)))
        /\ UNCHANGED <<config, iteration, reported, warned, out, pinned,
                       probe, file, exit_code>>

Next ==
    \/ ReadEof
    \/ ReadInterrupted
    \/ ReadError
    \/ Loop
    \/ ExitCmd
    \/ HelpCmd
    \/ PromptCmd
    \/ WatchCmd
    \/ ProbeExit
    \/ WatchChildExit
    \/ FileCmd
    \/ PlusPlusCmd
    \/ PlusPlusChildExit
    \/ FanCmd
    \/ FanChildExit
    \/ PlainCmd
    \/ PlainChildExit

Spec == Init /\ [][Next]_vars

\* a session in which only batch files are read
NextBatch ==
    \/ BatchFileCmd
    \/ Loop

SpecBatch == Init /\ [][NextBatch]_vars

\* a session that only prompts
NextPrompt ==
    \/ ReadInterrupted
    \/ ReadError
    \/ ReadEof

SpecPrompt == InitPrompt /\ [][NextPrompt]_vars

(***************************************************************************)
(* Properties.                                                             *)
(***************************************************************************)
\* the parts of an Invocation's argument list
Target(inv) == inv.argv[2]
UserArgs(inv) == SubSeq(inv.argv, 4, Len(inv.argv))
InDispatch == pc \in {"child", "returned"}
Failed(inv) == inv.status \in {"spawn_failed", "exit1"}
\* what follows ++ on the line, split: the toolchain, then the command
AfterPlusPlus == Split(Trim(From(cmd, 2)))

\* C1: a line that matches no prefix issues exactly one Invocation, whose
\* user arguments are the line split on single spaces and whose target
\* toolchain is the override at the time of dispatch.
C1_PlainRunsUnderOverride ==
    (branch = "plain" /\ InDispatch) =>
        /\ Len(invs) = 1
        /\ UserArgs(invs[1]) = Split(cmd)
        /\ Target(invs[1]) = entry

\* C2: after `++ T` without a command the override is T, and it is still T
\* whenever a later command that is neither a `++` command nor an aborted
\* fan-out has returned.
C2_SwitchPersists ==
    /\ (branch = "pp" /\ pc = "returned" /\ Len(AfterPlusPlus) = 1) =>
            current_toolchain = Trim(AfterPlusPlus[1])
    /\ (pinned # <<>> /\ pc \in {"returned", "readline", "eof", "exited"}) =>
            current_toolchain = pinned[1]

\* C2 witness: `++ beta` was given under another toolchain, and a later
\* fan-out over a non-empty list has completed with the override still beta.
C2_Witness ==
    /\ pinned = <<BETA>>
    /\ default_toolchain # BETA
    /\ branch = "fan"
    /\ pc = "returned"
    /\ ret = "Ok"
    /\ Len(invs) >= 1
    /\ current_toolchain = BETA

\* C3: `++ T a1 ... an` with n >= 1 issues exactly one Invocation, with
\* argument list ["run", T, "cargo", a1, ..., an].
C3_TemporaryRunsUnderNamed ==
    (branch = "pp" /\ InDispatch /\ Len(AfterPlusPlus) > 1) =>
        /\ Len(invs) = 1
        /\ invs[1].argv = <<RUN, Trim(AfterPlusPlus[1]), CARGO>> \o Tail(AfterPlusPlus)

\* C4: when `++ T cmd` returns, Ok or Err, the override is what it was
\* immediately before the command.
C4_TemporaryRestores ==
    (branch = "pp" /\ pc = "returned" /\ Len(AfterPlusPlus) > 1) =>
        current_toolchain = entry

\* C5: a `+ args` fan-out whose runs all succeed issues one Invocation per
\* configured toolchain, in list order, the i-th targeting the i-th
\* toolchain with the user arguments args, the override being the i-th
\* toolchain while it runs.
C5_FanOutTargetsEach ==
    (branch = "fan" /\ pc = "returned" /\ ret = "Ok"
        /\ \A i \in 1..Len(invs) : ~Failed(invs[i])) =>
        /\ Len(invs) = Len(toolchains)
        /\ \A i \in 1..Len(invs) :
              /\ Target(invs[i]) = toolchains[i]
              /\ UserArgs(invs[i]) = Split(Trim(From(cmd, 1)))
              /\ invs[i].override = toolchains[i]

\* C6: when a `+ args` fan-out returns, completed or aborted, the override
\* is what it was immediately before the command.
C6_FanOutRestores ==
    (branch = "fan" /\ pc = "returned") => current_toolchain = entry

\* C7: in a fan-out, once an Invocation has failed no later Invocation is
\* issued, and dispatch returns an error.
C7_FanOutAbortsOnFailure ==
    (branch = "fan" /\ InDispatch) =>
        /\ \A i \in 1..Len(invs) : Failed(invs[i]) => i = Len(invs)
        /\ (pc = "returned" /\ \E i \in 1..Len(invs) : Failed(invs[i])) =>
              ret = "Err"

\* C8: the override is never the empty string.
C8_OverrideNonEmpty == current_toolchain # EMPTY

\* C9: a run-type command returns Ok only if every subprocess it spawned
\* started and exited with status zero.
C9_FailureIsError ==
    (pc = "returned" /\ branch \in {"plain", "watch", "pp", "fan"}
        /\ \E i \in 1..Len(invs) : Failed(invs[i])) =>
        ret = "Err"

\* C10: when dispatch returns an error main reports it and goes back to
\* reading; the loop ends only on end-of-input, and the process exits only
\* on a line that is exactly exit or quit.
C10_ErrorsDoNotEndSession ==
    [][ /\ (pc = "returned" /\ ret = "Err") => (pc' = "readline" /\ reported')
        /\ (pc = "returned") => pc' = "readline"
        /\ (pc' = "eof" /\ pc # "eof") => (pc = "readline" /\ rl' = "Eof")
        /\ (pc' = "exited" /\ pc # "exited") =>
              (pc = "readline" /\ cmd' \in {EXIT, QUIT}) ]_vars

\* C10 witness: an error was reported and main is reading again.
C10_Witness == pc = "readline" /\ reported

\* the lines of the file read before the first read error
Readable ==
    LET bad == {i \in 1..Len(file.lines) : file.lines[i] = READ_ERROR}
    IN  IF bad = {} THEN file.lines
        ELSE SubSeq(file.lines, 1, (CHOOSE i \in bad : \A j \in bad : i <= j) - 1)
Unreadable == ~file.opened \/ \E i \in 1..Len(file.lines) : file.lines[i] = READ_ERROR
KeptLine(l) == Trim(l) # EMPTY /\ Trim(l)[1] # "#"

C12_BatchLinesParsed ==
    (branch = "file" /\ pc = "returned" /\ file.opened) =>
        LET kept == SelectSeq(Readable, KeptLine)
        IN  /\ Len(out) = Len(kept)
            /\ \A i \in 1..Len(kept) : out[i] = Split(Trim(kept[i]))

\* C12 witness: a command line, a comment and a command line.
C12_Witness ==
    /\ branch = "file"
    /\ pc = "returned"
    /\ file.opened
    /\ file.lines = << <<SP>> \o TEST \o <<SP>> \o BETA \o <<TAB>>,
                       <<SP, "#", SP>> \o TEST,
                       <<SP>> \o TEST \o <<SP>> \o BETA \o <<TAB>> >>
    /\ out = << <<TEST, BETA>>, <<TEST, BETA>> >>

\* the template s with each placeholder occurrence replaced by its value
\* and every other character kept
RECURSIVE Substituted(_)
Substituted(s) ==
    IF s = EMPTY THEN EMPTY
    ELSE IF StartsWith(s, PROJECT)
         THEN name \o Substituted(From(s, Len(PROJECT)))
    ELSE IF StartsWith(s, VERSION)
         THEN version \o Substituted(From(s, Len(VERSION)))
    ELSE IF StartsWith(s, TOOLCHAIN)
         THEN current_toolchain \o Substituted(From(s, Len(TOOLCHAIN)))
    ELSE <<Head(s)>> \o Substituted(Tail(s))

\* C13: the prompt shown at each read is the template with every
\* {project}, {version} and {toolchain} replaced by the project name, the
\* version and the current override, all other text unchanged.
C13_PromptSubstituted ==
    pc = "readline" => shown = Substituted(prompt)

\* C14: the branch taken for a trimmed line is decided by the line alone:
\* exit, quit and help only when the line is exactly that word, `p ` before
\* anything else starting with p, `++` never as a fan-out, and every line
\* that matches nothing as a plain run.
C14_ClassifiedInOrder ==
    rl = "line" =>
        LET n == Len(cmd)
            isExit == cmd = EXIT \/ cmd = QUIT
            isHelp == cmd = HELP
            isPrompt == n >= 2 /\ cmd[1] = "p" /\ cmd[2] = SP
            isWatch == n >= 1 /\ cmd[1] = "~"
            isFile == n >= 1 /\ cmd[1] = "<"
            isPP == n >= 2 /\ cmd[1] = "+" /\ cmd[2] = "+"
            isFan == n >= 1 /\ cmd[1] = "+" /\ ~isPP
        IN  /\ branch = "exit" <=> isExit
            /\ branch = "help" <=> isHelp
            /\ branch = "prompt" <=> isPrompt
            /\ branch = "watch" <=> isWatch
            /\ branch = "file" <=> isFile
            /\ branch = "pp" <=> isPP
            /\ branch = "fan" <=> isFan
            /\ branch = "plain" <=>
                  ~(isExit \/ isHelp \/ isPrompt \/ isWatch \/ isFile \/ isPP \/ isFan)

\* C14 witness: `++beta` was dispatched as a toolchain switch.
C14_Witness ==
    /\ rl = "line"
    /\ cmd = <<"+", "+">> \o BETA
    /\ branch = "pp"
    /\ current_toolchain = BETA

\* C15: in a `~ args` command, a probe that cannot start or exits
\* unsuccessfully leads to no Invocation, no state change and Ok; a probe
\* that succeeds leads to exactly one Invocation, whose user arguments are
\* watch followed by the text after ~, trimmed and split on single spaces.
C15_WatchNeedsProbe ==
    (branch = "watch" /\ InDispatch) =>
        /\ probe \in {"spawn_failed", "exit1"} =>
              /\ pc = "returned"
              /\ invs = <<>>
              /\ config = before
              /\ ret = "Ok"
              /\ warned
        /\ probe = "exit0" =>
              /\ Len(invs) = 1
              /\ UserArgs(invs[1]) = <<WATCH>> \o Split(Trim(From(cmd, 1)))
              /\ ~warned

\* C15 witness: `~ test beta` ran `watch test beta` after the probe
\* succeeded.
C15_Witness ==
    /\ branch = "watch"
    /\ pc = "returned"
    /\ probe = "exit0"
    /\ Len(invs) = 1
    /\ UserArgs(invs[1]) = <<WATCH, TEST, BETA>>

\* C16: the selector path, the project name and version, the default
\* toolchain, the toolchain list and the working directory never change;
\* the prompt template changes only in a `p ` command, the override only in
\* a `++` or `+` command.
C16_FieldsFramed ==
    [][ /\ fixed' = fixed
        /\ prompt' # prompt => (pc = "readline" /\ branch' = "prompt")
        /\ current_toolchain' # current_toolchain => branch' \in {"pp", "fan"}
      ]_vars

\* C16 witness: after the prompt and the override were changed, a plain
\* command has run and left both.
C16_Witness ==
    /\ branch = "plain"
    /\ pc = "returned"
    /\ prompt # DEFAULT_PROMPT
    /\ current_toolchain # default_toolchain
    /\ config = before

\* the Invocations whose child is in flight
Running == {i \in 1..Len(invs) : invs[i].status = "running"}

\* C17: at most one subprocess is in flight; a line is read, and a
\* fan-out's next Invocation issued, only when none is.
C17_Sequential ==
    /\ Cardinality(Running) + (IF probe = "running" THEN 1 ELSE 0) <= 1
    /\ \A i \in Running : i = Len(invs) /\ pc = "child"
    /\ probe = "running" => pc = "probe"
    /\ pc \in {"readline", "returned", "eof", "exited"} =>
          (Running = {} /\ probe # "running")

\* C17 witness: in a fan-out the second child runs after the first exited.
C17_Witness ==
    /\ branch = "fan"
    /\ Len(invs) = 2
    /\ invs[1].status \in {"exit0", "exit1"}
    /\ invs[2].status = "running"

\* C18: an interrupt at the prompt leads back to the prompt with nothing
\* dispatched, nothing invoked and the session state as it was;
\* end-of-input ends the loop with success; exit and quit end the process
\* with status 0 and no Invocation.
C18_InterruptEofExit ==
    /\ rl = "Interrupted" =>
          /\ pc = "readline"
          /\ branch = "none"
          /\ ret = "none"
          /\ invs = <<>>
          /\ config = before
          /\ exit_code = -1
    /\ pc = "eof" => (rl = "Eof" /\ exit_code = 0)
    /\ pc = "exited" =>
          (cmd \in {EXIT, QUIT} /\ exit_code = 0 /\ invs = <<>> /\ config = before)

\* C18 witness: an interrupt at the prompt after the override was switched.
C18_Witness ==
    /\ rl = "Interrupted"
    /\ pc = "readline"
    /\ current_toolchain = BETA

C20_EmptyFanOut ==
    (branch = "fan" /\ rl = "line" /\ toolchains = <<>>) =>
        /\ pc = "returned"
        /\ invs = <<>>
        /\ ret = "Ok"
        /\ current_toolchain = entry

\* C20 witness: `+ test` over an empty list, under the override beta.
C20_Witness ==
    /\ branch = "fan"
    /\ toolchains = <<>>
    /\ pc = "returned"
    /\ cmd = <<"+", SP>> \o TEST
    /\ current_toolchain = BETA
====
